---- MODULE Spec2Model ----
(***************************************************************************)
(* Model of the ConRad voice transcription service                         *)
(* (src/voice-service/voice_server.py).                                    *)
(*                                                                         *)
(* The service is one uvicorn process running one asyncio event loop.      *)
(* Every handler is a coroutine; a coroutine runs without interruption     *)
(* until it reaches an await.  transcribe_audio has exactly one await      *)
(* (file.read(), line 94), so a request is two atomic steps: Receive (the  *)
(* handler from its entry to the await) and Resume (from the await to the  *)
(* response).  get_model, whisper.load_model and model.transcribe are      *)
(* blocking calls made on the event loop thread.                           *)
(*                                                                         *)
(* Text is modelled as a sequence of one-character strings, so that the    *)
(* substring test, os.path.splitext and str.lower are computed rather than *)
(* assumed.                                                                *)
(***************************************************************************)
EXTENDS Integers, Sequences, FiniteSets, TLC

\* ------------------------------------------------------------------ bounds
\* Number of /transcribe requests the clients send during one run.
NumRequests == 2

\* ------------------------------------------------------------------ text
UpperCase == <<"A","B","C","D","E","F","G","H","I","J","K","L","M",
               "N","O","P","Q","R","S","T","U","V","W","X","Y","Z">>
LowerCase == <<"a","b","c","d","e","f","g","h","i","j","k","l","m",
               "n","o","p","q","r","s","t","u","v","w","x","y","z">>

\* str.lower() on one character.
LowerChar(c) ==
    IF \E i \in 1..26 : UpperCase[i] = c
    THEN LowerCase[CHOOSE i \in 1..26 : UpperCase[i] = c]
    ELSE c

\* str.lower()
Lower(s) == [i \in 1..Len(s) |-> LowerChar(s[i])]

\* Python's `sub in s` on strings.
Contains(sub, s) ==
    \E i \in 0..(Len(s) - Len(sub)) : SubSeq(s, i + 1, i + Len(sub)) = sub

\* str.rfind for one character, 1-based; 0 when the character is absent
\* (Python's -1).
RFind(s, c) ==
    IF \E i \in 1..Len(s) : s[i] = c
    THEN CHOOSE i \in 1..Len(s) : s[i] = c /\ \A j \in (i+1)..Len(s) : s[j] # c
    ELSE 0

\* os.path.splitext(p)[1] (posixpath / genericpath._splitext): the suffix
\* from the last dot of the last path component, unless that component
\* consists of leading dots only up to that dot.
SplitExt(p) ==
    LET sepIndex == RFind(p, "/")
        dotIndex == RFind(p, ".")
    IN  IF dotIndex > sepIndex
           /\ \E k \in (sepIndex + 1)..(dotIndex - 1) : p[k] # "."
        THEN SubSeq(p, dotIndex, Len(p))
        ELSE << >>

\* ------------------------------------------------------------ validation
\* Line 83 with "audio" as the only marker.
MarkersAudioOnly == { <<"a","u","d","i","o">> }

\* The markers of line 83.
Markers == { <<"a","u","d","i","o">>,
             <<"v","i","d","e","o","/","w","e","b","m">> }

\* The extension allow-list of line 86.
AllowedExts == { <<".","w","e","b","m">>, <<".","w","a","v">>,
                 <<".","m","p","3">>, <<".","m","4","a">>,
                 <<".","o","g","g">> }

\* Line 83: any(t in content_type for t in ["audio", "video/webm"])
ContentTypeOk(content_type) == \E t \in Markers : Contains(t, content_type)

\* Line 85 without the .lower() call.
ExtCaseSensitive(filename) == SplitExt(filename)

\* Line 85: ext = os.path.splitext(file.filename)[1].lower()
Ext(filename) == Lower(SplitExt(filename))

\* Line 86: ext in [".webm", ".wav", ".mp3", ".m4a", ".ogg"]
ExtOk(filename) == Ext(filename) \in AllowedExts

\* Lines 82-90 with the test of line 86 inverted (`ext in` for `ext not in`).
ValidationFailsInverted(u) ==
    /\ ~ContentTypeOk(u.content_type)
    /\ ExtOk(u.filename)

\* Lines 82-90 with an added rejection of uploads that carry no bytes.
ValidationFailsOnEmpty(u) ==
    \/ /\ ~ContentTypeOk(u.content_type)
       /\ ~ExtOk(u.filename)
    \/ u.content = << >>

\* Lines 82-90: TRUE when the validation step raises HTTPException(400).
ValidationFails(u) ==
    /\ ~ContentTypeOk(u.content_type)
    /\ ~ExtOk(u.filename)

\* ------------------------------------------------------------- exceptions
\* HTTPException(status_code=400, detail=f"Unsupported file type: ...") of
\* lines 87-90.  The detail is the f-string, kept as a sequence of pieces
\* with the content-type spliced in character by character.
UnsupportedFileType(content_type) ==
    [type |-> "HTTPException", status_code |-> 400,
     detail |-> <<"Unsupported file type: ">> \o content_type
                \o <<". Use webm, wav, mp3, m4a, or ogg">>]

\* Exceptions raised by the calls the handler makes.
TempFileError == [type |-> "OSError", args |-> <<"cannot create temporary file">>]
ReadError     == [type |-> "OSError", args |-> <<"cannot read upload">>]
WriteError    == [type |-> "OSError", args |-> <<"cannot write temporary file">>]
LoadError     == [type |-> "RuntimeError", args |-> <<"cannot load model">>]
InferenceError == [type |-> "RuntimeError", args |-> <<"cannot transcribe audio">>]
\* Line 110 reads the name `segments`, which no line of the module binds.
SegmentsNameError == [type |-> "NameError", args |-> <<"name 'segments' is not defined">>]

NoException == [type |-> "none"]

StatusText(n) == IF n = 400 THEN "400" ELSE "500"

\* str(e) of line 129.  An HTTPException prints as "<status_code>: <detail>";
\* any other exception prints its message.
Str(e) ==
    IF e.type = "HTTPException"
    THEN <<StatusText(e.status_code), ": ">> \o e.detail
    ELSE e.args

\* ------------------------------------------------------------- responses
NoResponse == [kind |-> "none"]

\* An HTTPException leaving the handler is rendered by FastAPI as a response
\* with its status code and detail.
ErrorResponse(status_code, detail) ==
    [kind |-> "error", status_code |-> status_code, detail |-> detail]

\* Lines 127-129 with a clause that catches OSError only: any other
\* exception leaves the handler and the server answers with its generic
\* error page.
OuterExceptOSErrorOnly(e) ==
    IF e.type = "OSError"
    THEN ErrorResponse(500, Str(e))
    ELSE [kind |-> "escaped", status_code |-> 500,
          detail |-> <<"Internal Server Error">>]

\* Lines 127-129 without the raise: the exception is printed and dropped,
\* and the handler ends without having produced an outcome of its own.
OuterExceptSwallows(e) == NoResponse

\* Lines 127-129: `except Exception as e` catches every exception raised in
\* the try block, HTTPException included, and raises HTTPException(500,
\* str(e)) in its place.
OuterExcept(e) == ErrorResponse(500, Str(e))

\* ------------------------------------------------------------ file system
Requests == 1..NumRequests

\* Names the temporary directory can hand out; one per request suffices
\* because a request creates at most one file.
Names == 1..NumRequests

\* tempName[r] before the request has created its temporary file.
NoName == 0

NoFile == [exists |-> FALSE, owner |-> 0, data |-> << >>, open |-> FALSE]

\* A name generator that does not look at the directory.
AnyNames(files) == Names

\* tempfile.NamedTemporaryFile opens with O_EXCL: only a name that no
\* existing file bears can be chosen.
FreeNames(files) == {n \in Names : ~files[n].exists}

\* Line 93: the file just created, empty and open, on behalf of request r.
NewFile(r) == [exists |-> TRUE, owner |-> r, data |-> << >>, open |-> TRUE]

\* Line 95 with the last byte not written.
WriteFileShort(f, content) ==
    [f EXCEPT !.data = @ \o SubSeq(content, 1, Len(content) - 1)]

\* Line 95: temp_file.write(content)
WriteFile(f, content) == [f EXCEPT !.data = @ \o content]

\* Leaving the `with` block of line 93 closes (and so flushes) the file;
\* delete=False keeps it on disk.
CloseFile(f) == [f EXCEPT !.open = FALSE]

\* Lines 124-125: if os.path.exists(temp_path): os.unlink(temp_path)
Unlink(files, n) == IF files[n].exists THEN [files EXCEPT ![n] = NoFile] ELSE files

\* ------------------------------------------------------------------ model
\* `model = None` of line 27; a constructed engine is numbered by the
\* load_model call that produced it (1, 2, ...).
None == 0

\* Lines 29-35 without the `if model is None` test: every call loads.
get_model_always_loads(m, loads, ok) ==
    IF ok
    THEN [raised |-> FALSE, model |-> loads + 1, ret |-> loads + 1, loads |-> loads + 1]
    ELSE [raised |-> TRUE,  model |-> m,         ret |-> None,      loads |-> loads + 1]

\* Lines 29-35 with a failed load remembered in the global (as -1).
get_model_caches_failure(m, loads, ok) ==
    IF m = None
    THEN IF ok
         THEN [raised |-> FALSE, model |-> loads + 1, ret |-> loads + 1, loads |-> loads + 1]
         ELSE [raised |-> TRUE,  model |-> -1,        ret |-> None,      loads |-> loads + 1]
    ELSE [raised |-> (m = -1), model |-> m, ret |-> m, loads |-> loads]

\* Lines 29-35 without the `global model` statement: the engine is bound
\* to a local name and the module global is left as it was.
get_model_local(m, loads, ok) ==
    IF m = None
    THEN IF ok
         THEN [raised |-> FALSE, model |-> m, ret |-> loads + 1, loads |-> loads + 1]
         ELSE [raised |-> TRUE,  model |-> m, ret |-> None,      loads |-> loads + 1]
    ELSE [raised |-> FALSE, model |-> m, ret |-> m, loads |-> loads]

\* Lines 29-35.  loads is the number of whisper.load_model calls made so
\* far; ok tells whether a load_model call made now returns or raises.
get_model(m, loads, ok) ==
    IF m = None
    THEN IF ok
         THEN [raised |-> FALSE, model |-> loads + 1, ret |-> loads + 1, loads |-> loads + 1]
         ELSE [raised |-> TRUE,  model |-> m,         ret |-> None,      loads |-> loads + 1]
    ELSE [raised |-> FALSE, model |-> m, ret |-> m, loads |-> loads]

\* What whisper recognizes in a file: the bytes as characters, behind the
\* blank whisper puts in front of the text.
Recognize(data) == <<" ">> \o data

\* Lines 106-120, run after transcribe has returned `result`: line 106 reads
\* result["text"], line 110 then evaluates `segments` and raises NameError
\* before any payload is built.
AfterTranscribe(result) == [raised |-> TRUE, exc |-> SegmentsNameError]

\* ---------------------------------------------------------------- uploads
\* An Upload: declared content-type, filename, and bytes (one character per
\* byte).
Upload(content_type, filename, content) ==
    [content_type |-> content_type, filename |-> filename, content |-> content]

AudioWav  == <<"a","u","d","i","o","/","w","a","v">>
AudioWebm == <<"a","u","d","i","o","/","w","e","b","m">>
VideoWebm == <<"v","i","d","e","o","/","w","e","b","m">>
TextPlain == <<"t","e","x","t","/","p","l","a","i","n">>
ClipWav   == <<"c","l","i","p",".","w","a","v">>
ClipWAV   == <<"c","l","i","p",".","W","A","V">>
ClipTxt   == <<"c","l","i","p",".","t","x","t">>
ClipWebm  == <<"c","l","i","p",".","w","e","b","m">>
Blob      == <<"b","l","o","b">>
AudioBare == <<"a","u","d","i","o">>
AUDIOWav  == <<"A","U","D","I","O","/","w","a","v">>
VideoMp4  == <<"v","i","d","e","o","/","m","p","4">>
ClipOgg   == <<"c","l","i","p",".","O","g","g">>
ClipM4a   == <<"c","l","i","p",".","m","4","a">>
DotWav    == <<".","w","a","v">>
WavTxt    == <<"a",".","w","a","v",".","t","x","t">>
DirDot    == <<"a",".","m","p","3","/","c","l","i","p">>

\* The uploads clients send to the running service.
Uploads ==
    { Upload(AudioWav,  ClipWav,  <<"h","i">>),
      Upload(TextPlain, ClipTxt,  <<"n","o">>),
      Upload(<< >>,     ClipWAV,  <<"y","o">>),
      Upload(AudioWebm, ClipWebm, << >>) }

\* The uploads on which the validation step alone is examined: every
\* content-type with every filename, with and without bytes.
CandidateTypes == { << >>, TextPlain, AudioWav, AudioBare, AUDIOWav,
                    VideoWebm, VideoMp4 }
CandidateNames == { ClipWav, ClipWAV, ClipTxt, ClipOgg, ClipM4a, Blob,
                    DotWav, WavTxt, DirDot }
CandidateBytes == { << >>, <<"h","i">> }
Candidates ==
    { Upload(t, f, b) : t \in CandidateTypes, f \in CandidateNames,
                        b \in CandidateBytes }

\* ------------------------------------------------------------------ state
VARIABLES
    startup,        \* "pending" | "loaded" | "failed": outcome of startup_event
    model,          \* the module global `model`
    loads,          \* number of whisper.load_model calls made
    built,          \* number of whisper.load_model calls that returned
    fs,             \* the temporary directory: name -> file
    pc,             \* per request: "idle" | "reading" | "done"
    upload,         \* per request: the Upload it carries
    tempName,       \* per request: name of the file it created, or NoName
    response,       \* per request: the HTTP response delivered
    raised,         \* per request: the first exception raised in the handler
    getModelCalls,  \* per request: number of get_model calls
    transcribeLog,  \* per request: what each model.transcribe call was given
    unlinked,       \* per request: the files it removed
    health,         \* the last /health response
    candidate,      \* the upload handed to the validation step on its own
    verdict         \* "unchecked" | "accepted" | "rejected" for candidate

vars == <<startup, model, loads, built, fs, pc, upload, tempName, response,
          raised, getModelCalls, transcribeLog, unlinked, health,
          candidate, verdict>>

NoUpload == Upload(<< >>, << >>, << >>)

ServerInit ==
    /\ startup = "pending"
    /\ model = None
    /\ loads = 0
    /\ built = 0
    /\ fs = [n \in Names |-> NoFile]
    /\ pc = [r \in Requests |-> "idle"]
    /\ upload = [r \in Requests |-> NoUpload]
    /\ tempName = [r \in Requests |-> NoName]
    /\ response = [r \in Requests |-> NoResponse]
    /\ raised = [r \in Requests |-> NoException]
    /\ getModelCalls = [r \in Requests |-> 0]
    /\ transcribeLog = [r \in Requests |-> << >>]
    /\ unlinked = [r \in Requests |-> {}]
    /\ health = [asked |-> FALSE, model_loaded |-> FALSE]

Init ==
    /\ ServerInit
    /\ candidate = NoUpload
    /\ verdict = "unchecked"

\* --------------------------------------------------------------- startup
\* Lines 38-48 without the try/except: a failing pre-load ends the startup
\* handler with the exception and the service never starts serving.
StartupFatal ==
    /\ startup = "pending"
    /\ \E ok \in BOOLEAN :
         LET gm == get_model(model, loads, ok)
         IN  /\ model' = gm.model
             /\ loads' = gm.loads
             /\ built' = IF gm.model # model THEN built + 1 ELSE built
             /\ startup' = IF gm.raised THEN "pending" ELSE "loaded"
    /\ UNCHANGED <<fs, pc, upload, tempName, response, raised, getModelCalls,
                   transcribeLog, unlinked, health, candidate, verdict>>

\* Lines 38-48: startup_event calls get_model once and swallows its failure.
\* uvicorn serves no request before the startup handler has finished.
Startup ==
    /\ startup = "pending"
    /\ \E ok \in BOOLEAN :
         LET gm == get_model(model, loads, ok)
         IN  /\ model' = gm.model
             /\ loads' = gm.loads
             /\ built' = IF gm.model # model THEN built + 1 ELSE built
             /\ startup' = IF gm.raised THEN "failed" ELSE "loaded"
    /\ UNCHANGED <<fs, pc, upload, tempName, response, raised, getModelCalls,
                   transcribeLog, unlinked, health, candidate, verdict>>

\* Lines 64-68: the body /health returns when the global holds m.
HealthResponse(m) == [status |-> "healthy", model_loaded |-> (m # None)]

\* Lines 62-68: /health reports whether the global is set.
HealthCheck ==
    /\ startup # "pending"
    /\ health' = [asked |-> TRUE,
                  model_loaded |-> HealthResponse(model).model_loaded]
    /\ UNCHANGED <<startup, model, loads, built, fs, pc, upload, tempName,
                   response, raised, getModelCalls, transcribeLog, unlinked,
                   candidate, verdict>>

\* ------------------------------------------------------------ /transcribe
\* Handler entry up to the await of line 94 (lines 76-94).  Requests are
\* numbered in the order the event loop starts their handlers.
\*   - validation fails: HTTPException(400) is raised inside the try block
\*     and handled by the except clause of line 127;
\*   - NamedTemporaryFile raises: handled by the same clause;
\*   - otherwise the file exists, empty and open, and the coroutine is
\*     suspended in file.read().
Receive(r) ==
    /\ startup # "pending"
    /\ pc[r] = "idle"
    /\ \A q \in Requests : q < r => pc[q] # "idle"
    /\ \E u \in Uploads :
         /\ upload' = [upload EXCEPT ![r] = u]
         /\ IF ValidationFails(u)
            THEN /\ raised' = [raised EXCEPT ![r] = UnsupportedFileType(u.content_type)]
                 /\ response' = [response EXCEPT
                                   ![r] = OuterExcept(UnsupportedFileType(u.content_type))]
                 /\ pc' = [pc EXCEPT ![r] = "done"]
                 /\ UNCHANGED <<fs, tempName>>
            ELSE \/ /\ raised' = [raised EXCEPT ![r] = TempFileError]
                    /\ response' = [response EXCEPT ![r] = OuterExcept(TempFileError)]
                    /\ pc' = [pc EXCEPT ![r] = "done"]
                    /\ UNCHANGED <<fs, tempName>>
                 \/ \E n \in FreeNames(fs) :
                      /\ fs' = [fs EXCEPT ![n] = NewFile(r)]
                      /\ tempName' = [tempName EXCEPT ![r] = n]
                      /\ pc' = [pc EXCEPT ![r] = "reading"]
                      /\ UNCHANGED <<raised, response>>
    /\ UNCHANGED <<startup, model, loads, built, getModelCalls, transcribeLog,
                   unlinked, health, candidate, verdict>>

\* What the environment does to one resumed request: whether file.read,
\* temp_file.write, whisper.load_model and model.transcribe return, and how
\* many bytes reached the file when write raises.  A call that is not
\* reached has no outcome, so its field is held at TRUE (written at 0).
Env(rd, wr, k, ld, tr) ==
    [read |-> rd, write |-> wr, written |-> k, load |-> ld, transcribe |-> tr]

Envs(r) ==
    {Env(FALSE, TRUE, 0, TRUE, TRUE)}
    \cup {Env(TRUE, FALSE, k, TRUE, TRUE) : k \in 0..Len(upload[r].content)}
    \cup {Env(TRUE, TRUE, 0, FALSE, TRUE) : x \in IF model = None THEN {1} ELSE {}}
    \cup {Env(TRUE, TRUE, 0, TRUE, tr) : tr \in BOOLEAN}

\* Lines 94-129 for request r under environment e: the values the handler
\* leaves behind.
\*   exc        the exception that reaches the except clause of line 127
\*   calls      the model.transcribe calls made
\*   removed    the files removed by the finally clause
HandlerTail(r, e) ==
    LET n       == tempName[r]
        content == upload[r].content
    IN  IF ~e.read
        THEN \* line 94 raises; the with block closes the file
             [fs |-> [fs EXCEPT ![n] = CloseFile(@)],
              model |-> model, loads |-> loads, getModel |-> 0,
              calls |-> << >>, removed |-> {}, exc |-> ReadError]
        ELSE IF ~e.write
        THEN \* line 95 raises with part of the bytes written
             [fs |-> [fs EXCEPT ![n] =
                        CloseFile(WriteFile(@, SubSeq(content, 1, e.written)))],
              model |-> model, loads |-> loads, getModel |-> 0,
              calls |-> << >>, removed |-> {}, exc |-> WriteError]
        ELSE
        LET staged  == [fs EXCEPT ![n] = CloseFile(WriteFile(@, content))]
            gm      == get_model(model, loads, e.load)
            call    == [path |-> n, owner |-> staged[n].owner,
                        data |-> staged[n].data, open |-> staged[n].open,
                        handle |-> gm.ret, returned |-> e.transcribe]
            result  == [text |-> Recognize(staged[n].data)]
            cleaned == Unlink(staged, n)
            removed == IF staged[n].exists
                       THEN {[path |-> n, owner |-> staged[n].owner]} ELSE {}
        IN  IF gm.raised
            THEN \* line 100 raises
                 [fs |-> cleaned, model |-> gm.model, loads |-> gm.loads,
                  getModel |-> 1, calls |-> << >>, removed |-> removed,
                  exc |-> LoadError]
            ELSE IF ~e.transcribe
            THEN \* line 104 raises
                 [fs |-> cleaned, model |-> gm.model, loads |-> gm.loads,
                  getModel |-> 1, calls |-> <<call>>, removed |-> removed,
                  exc |-> InferenceError]
            ELSE \* line 104 returns; lines 106-120 follow
                 [fs |-> cleaned, model |-> gm.model, loads |-> gm.loads,
                  getModel |-> 1, calls |-> <<call>>, removed |-> removed,
                  exc |-> AfterTranscribe(result).exc]

\* The handler from the await of line 94 to its end (lines 94-129).
Resume(r) ==
    /\ pc[r] = "reading"
    /\ \E e \in Envs(r) :
         LET t == HandlerTail(r, e)
         IN  /\ fs' = t.fs
             /\ model' = t.model
             /\ loads' = t.loads
             /\ built' = IF t.model # model THEN built + 1 ELSE built
             /\ getModelCalls' = [getModelCalls EXCEPT ![r] = @ + t.getModel]
             /\ transcribeLog' = [transcribeLog EXCEPT ![r] = @ \o t.calls]
             /\ unlinked' = [unlinked EXCEPT ![r] = @ \cup t.removed]
             /\ raised' = [raised EXCEPT ![r] = t.exc]
             /\ response' = [response EXCEPT ![r] = OuterExcept(t.exc)]
             /\ pc' = [pc EXCEPT ![r] = "done"]
    /\ UNCHANGED <<startup, upload, tempName, health, candidate, verdict>>

Next ==
    \/ Startup
    \/ HealthCheck
    \/ \E r \in Requests : Receive(r)
    \/ \E r \in Requests : Resume(r)

Spec == Init /\ [][Next]_vars

\* ------------------------------------------------- validation on its own
\* Lines 82-90 applied to one upload: the step either raises (rejected) or
\* falls through to staging (accepted).
Validate ==
    /\ verdict = "unchecked"
    /\ verdict' = IF ValidationFails(candidate) THEN "rejected" ELSE "accepted"
    /\ UNCHANGED <<startup, model, loads, built, fs, pc, upload, tempName,
                   response, raised, getModelCalls, transcribeLog, unlinked,
                   health, candidate>>

ValidateInit ==
    /\ ServerInit
    /\ candidate \in Candidates
    /\ verdict = "unchecked"

ValidateNext == Validate

ValidateSpec == ValidateInit /\ [][ValidateNext]_vars

\* ================================================================ claims
\* Vocabulary of the claims, stated without the handler's own tests.

\* filename carries extension x (lower-case, without the dot), compared
\* case-insensitively: it ends in ".x" and the last path component has a
\* proper stem in front of that dot.
HasExtension(filename, x) ==
    \E i \in 1..Len(filename) :
        /\ Lower(SubSeq(filename, i, Len(filename))) = <<".">> \o x
        /\ \E k \in 1..(i - 1) :
              /\ filename[k] # "."
              /\ \A j \in k..(i - 1) : filename[j] # "/"

AllowedExtensionNames ==
    { <<"w","e","b","m">>, <<"w","a","v">>, <<"m","p","3">>,
      <<"m","4","a">>, <<"o","g","g">> }

HasAllowedExtension(filename) ==
    \E x \in AllowedExtensionNames : HasExtension(filename, x)

NamesAudio(content_type) == Contains(<<"a","u","d","i","o">>, content_type)
NamesVideoWebm(content_type) ==
    Contains(<<"v","i","d","e","o","/","w","e","b","m">>, content_type)

\* The upload fails both checks.
BothChecksFail(u) ==
    /\ ~NamesAudio(u.content_type)
    /\ ~NamesVideoWebm(u.content_type)
    /\ ~HasAllowedExtension(u.filename)

\* Request r has created a temporary file that is still on disk.
LeftOnDisk(r) ==
    /\ tempName[r] # NoName
    /\ fs[tempName[r]].exists
    /\ fs[tempName[r]].owner = r

Called(r) == Len(transcribeLog[r]) > 0

\* C1: once a /transcribe request has been answered, no temporary file it
\* created is on disk, whatever the exit path.
C1_NoTempFileAfterResponse ==
    \A r \in Requests : pc[r] = "done" => ~LeftOnDisk(r)

\* C2: an upload failing both validation checks is answered with HTTP 400
\* and a detail naming the rejected content-type.
C2_RejectionAnswered400 ==
    \A r \in Requests :
        (pc[r] = "done" /\ BothChecksFail(upload[r])) =>
            /\ response[r].kind = "error"
            /\ response[r].status_code = 400
            /\ Contains(<<"Unsupported file type: ">> \o upload[r].content_type,
                        response[r].detail)

\* C3: a request whose model.transcribe call returned a result is answered
\* with the success payload.
C3_SuccessWhenModelReturns ==
    \A r \in Requests :
        (pc[r] = "done" /\ Called(r) /\ transcribeLog[r][1].returned) =>
            response[r].kind = "ok"

\* C4: a request whose upload fails both checks raises the 400 rejection
\* without having called get_model or model.transcribe and without having
\* created a temporary file.
C4_RejectedBeforeStaging ==
    \A r \in Requests :
        (pc[r] # "idle" /\ BothChecksFail(upload[r])) =>
            /\ pc[r] = "done"
            /\ raised[r].type = "HTTPException"
            /\ raised[r].status_code = 400
            /\ getModelCalls[r] = 0
            /\ ~Called(r)
            /\ tempName[r] = NoName
            /\ \A n \in Names : ~(fs[n].exists /\ fs[n].owner = r)

\* A rejected request stands next to one that reached the model.
C4_Witness ==
    \E r, q \in Requests :
        /\ pc[r] = "done" /\ BothChecksFail(upload[r])
        /\ raised[r].type = "HTTPException"
        /\ Called(q)

\* C5: validation accepts every upload whose content-type contains "audio"
\* or whose extension is, case-insensitively, webm, wav, mp3, m4a or ogg,
\* whatever its bytes; it rejects only uploads failing both checks.
C5_ValidationAccepts ==
    /\ (verdict # "unchecked"
          /\ (NamesAudio(candidate.content_type)
                \/ HasAllowedExtension(candidate.filename)))
       => verdict = "accepted"
    /\ verdict = "rejected" => BothChecksFail(candidate)

\* An upper-case extension alone carries an upload with no bytes through.
C5_Witness ==
    /\ verdict = "accepted"
    /\ candidate.filename = ClipWAV
    /\ ~NamesAudio(candidate.content_type)
    /\ candidate.content = << >>

\* C6: the engine is constructed at most once, and every model.transcribe
\* call of every request is made on the one handle held by the global.
C6_SingleEngine ==
    /\ built <= 1
    /\ model # None => built = 1
    /\ \A r \in Requests : \A i \in 1..Len(transcribeLog[r]) :
          /\ model # None
          /\ transcribeLog[r][i].handle = model

\* The pre-load failed, a request built the engine, and two requests have
\* used it.
C6_Witness ==
    /\ startup = "failed"
    /\ \E r, q \in Requests : r # q /\ Called(r) /\ Called(q)

\* C7: requests in flight together hold different temporary files; the
\* model is given the path of the request's own file holding the request's
\* own bytes; a request removes only the file it created.
C7_PrivateTempFiles ==
    /\ \A r, q \in Requests :
          (r # q /\ pc[r] = "reading" /\ pc[q] = "reading") =>
              tempName[r] # tempName[q]
    /\ \A r \in Requests : pc[r] = "reading" => LeftOnDisk(r)
    /\ \A r \in Requests : \A i \in 1..Len(transcribeLog[r]) :
          /\ transcribeLog[r][i].path = tempName[r]
          /\ transcribeLog[r][i].owner = r
          /\ transcribeLog[r][i].data = upload[r].content
    /\ \A r \in Requests : \A x \in unlinked[r] :
          x.owner = r /\ x.path = tempName[r]

\* A later request has been transcribed and cleaned up while an earlier
\* one, carrying other bytes, is still suspended with its file on disk.
C7_Witness ==
    \E r, q \in Requests :
        /\ r < q
        /\ pc[r] = "reading"
        /\ pc[q] = "done" /\ Called(q) /\ unlinked[q] # {}
        /\ upload[r].content # upload[q].content

\* C8: the file given to model.transcribe holds the whole upload and is
\* closed.
C8_TranscribeAfterFullWrite ==
    \A r \in Requests : \A i \in 1..Len(transcribeLog[r]) :
        /\ transcribeLog[r][i].data = upload[r].content
        /\ ~transcribeLog[r][i].open

C8_Witness ==
    \E r \in Requests : Called(r) /\ Len(upload[r].content) >= 2

\* The exceptions of staging and of model use.
StagingOrModelError(e) == e.type \in {"OSError", "RuntimeError", "NameError"}

\* C9: an exception raised while staging or while using the model is
\* answered as HTTP 500 with the exception's own message; it does not leave
\* the handler; model.transcribe is called at most once per request.
C9_FailuresAnswered500 ==
    \A r \in Requests :
        /\ Len(transcribeLog[r]) <= 1
        /\ (pc[r] = "done" /\ StagingOrModelError(raised[r])) =>
              /\ response[r].kind = "error"
              /\ response[r].status_code = 500
              /\ response[r].detail = raised[r].args

\* One request failed in staging and another in inference.
C9_Witness ==
    \E r, q \in Requests :
        /\ pc[r] = "done" /\ raised[r] = WriteError
        /\ pc[q] = "done" /\ raised[q] = InferenceError

\* Request r finishes in this step.
Finishes(r) == pc[r] = "reading" /\ pc'[r] = "done"

\* C10: a request in which model construction fails is answered with HTTP
\* 500 and leaves the global unset; a request that calls get_model while the
\* global is unset makes a fresh load_model call, and when that call
\* returns the request goes on to model.transcribe with the new engine.
C10_NoCachedFailure ==
    [][\A r \in Requests :
         /\ (Finishes(r) /\ raised'[r] = LoadError) =>
               /\ model = None
               /\ model' = None
               /\ loads' = loads + 1
               /\ response'[r].kind = "error"
               /\ response'[r].status_code = 500
         /\ (Finishes(r) /\ model = None /\ getModelCalls'[r] > getModelCalls[r]) =>
               /\ loads' = loads + 1
               /\ model' # None =>
                     /\ Len(transcribeLog'[r]) = 1
                     /\ transcribeLog'[r][1].handle = model'
      ]_vars

\* Construction failed in one request and a later load built the engine
\* that another request then used.
C10_Witness ==
    \E r, q \in Requests :
        /\ pc[r] = "done" /\ raised[r] = LoadError
        /\ response[r].status_code = 500
        /\ Called(q) /\ transcribeLog[q][1].handle = model
        /\ loads >= 2 /\ built = 1

\* Request r got as far as a model.transcribe call that returned a result,
\* which every successful request has done.
ModelReturned(r) ==
    pc[r] = "done" /\ Called(r) /\ transcribeLog[r][1].returned

\* C11: a /health answer given before any /transcribe request says
\* model_loaded: false only if the pre-load failed; in every state after a
\* request has been through a returning model call, /health answers
\* model_loaded: true, and the last answer given in such a state says so.
C11_HealthReflectsModel ==
    /\ (health.asked /\ (\A r \in Requests : pc[r] = "idle")
          /\ ~health.model_loaded) => startup = "failed"
    /\ (startup # "pending" /\ (\A r \in Requests : pc[r] = "idle")
          /\ ~HealthResponse(model).model_loaded) => startup = "failed"
    /\ (\E r \in Requests : ModelReturned(r)) =>
          HealthResponse(model).model_loaded

\* The pre-load failed, a request loaded the engine and had its model call
\* return, and /health has answered model_loaded: true.
C11_Witness ==
    /\ startup = "failed"
    /\ \E r \in Requests : ModelReturned(r)
    /\ health.asked /\ health.model_loaded

\* C12: a failed pre-load leaves the service started with the model
\* unloaded and able to take requests, and the first request that reaches
\* get_model makes a load_model call of its own.
C12_PreloadFailureNonFatal ==
    /\ loads >= 1 => startup # "pending"
    /\ (startup = "failed" /\ \A r \in Requests : getModelCalls[r] = 0) =>
          /\ model = None
          /\ loads = 1
    /\ (startup = "failed" /\ pc[1] = "idle") => ENABLED Receive(1)
    /\ (startup = "failed" /\ \E r \in Requests : getModelCalls[r] > 0) =>
          loads >= 2
    /\ \A r \in Requests :
          (startup = "failed" /\ pc[r] = "done"
             /\ ~BothChecksFail(upload[r])
             /\ raised[r] \notin {TempFileError, ReadError, WriteError}) =>
                getModelCalls[r] = 1

\* After a failed pre-load the first request was staged, loaded the engine
\* itself and went on to the model call.
C12_Witness ==
    /\ startup = "failed"
    /\ getModelCalls[1] = 1 /\ Called(1)
    /\ loads = 2 /\ built = 1

\* Request r carries an accepted upload with no bytes.
EmptyAccepted(r) ==
    /\ pc[r] # "idle"
    /\ upload[r].content = << >>
    /\ ~BothChecksFail(upload[r])

\* C13: an empty upload of an accepted type gets a temporary file like any
\* other; unless staging or model construction fails, the model is called
\* on that (empty, closed) file, and a failure of that call is answered
\* with HTTP 500 carrying the failure's message.
C13_EmptyUploadStagedAndTranscribed ==
    \A r \in Requests :
        /\ (EmptyAccepted(r) /\ raised[r] # TempFileError) =>
              tempName[r] # NoName
        /\ (EmptyAccepted(r) /\ pc[r] = "done"
              /\ raised[r] \notin {TempFileError, ReadError, WriteError, LoadError}) =>
              /\ Len(transcribeLog[r]) = 1
              /\ transcribeLog[r][1].path = tempName[r]
              /\ transcribeLog[r][1].data = << >>
              /\ ~transcribeLog[r][1].open
              /\ ~transcribeLog[r][1].returned =>
                    /\ raised[r] = InferenceError
                    /\ response[r] = ErrorResponse(500, InferenceError.args)

\* The model failed on an empty audio/webm upload and the client got 500.
C13_Witness ==
    \E r \in Requests :
        /\ EmptyAccepted(r) /\ pc[r] = "done"
        /\ upload[r].content_type = AudioWebm
        /\ Called(r) /\ ~transcribeLog[r][1].returned
        /\ response[r].status_code = 500

\* C14: an upload whose content-type contains "video/webm" is accepted
\* whatever its filename, and so is one whose content-type contains
\* "audio"; the filename decides the verdict only when the content-type
\* contains neither marker, and then by its extension alone.
C14_VideoWebmAccepted ==
    /\ (verdict # "unchecked" /\ NamesVideoWebm(candidate.content_type)) =>
          verdict = "accepted"
    /\ (verdict # "unchecked" /\ ~NamesVideoWebm(candidate.content_type)
          /\ ~NamesAudio(candidate.content_type)) =>
          (verdict = "accepted" <=> HasAllowedExtension(candidate.filename))

\* A video/webm upload was accepted under a filename with no allow-listed
\* extension.
C14_Witness ==
    /\ verdict = "accepted"
    /\ candidate.content_type = VideoWebm
    /\ candidate.filename \in {ClipTxt, Blob}

\* C15: once the global holds an engine no step resets or replaces it, and
\* once /health has answered model_loaded: true no later answer says false.
C15_ModelMonotonic ==
    [][/\ model # None => model' = model
       /\ (health.asked /\ health.model_loaded) =>
             (health'.asked /\ health'.model_loaded)
      ]_vars

\* With the engine pre-loaded, one request was rejected and another failed
\* in inference, and /health still answers model_loaded: true.
C15_Witness ==
    /\ startup = "loaded" /\ model = 1
    /\ health.asked /\ health.model_loaded
    /\ \E r, q \in Requests :
          /\ pc[r] = "done" /\ raised[r].type = "HTTPException"
          /\ pc[q] = "done" /\ raised[q] = InferenceError

\* The server under the assumption that every call a suspended request is
\* waiting for (file.read, whisper.load_model, model.transcribe) returns or
\* raises: a suspended request is eventually resumed and run to its end.
\* /health is left out of this specification: health_check reads the global
\* and writes nothing a /transcribe request reads (lines 62-68).
FairNext ==
    \/ Startup
    \/ \E r \in Requests : Receive(r)
    \/ \E r \in Requests : Resume(r)

FairSpec ==
    /\ Init
    /\ [][FairNext]_vars
    /\ \A r \in Requests : WF_vars(Resume(r))

Answered(r) == response[r].kind \in {"ok", "error"}

\* C16: every request whose handler has started ends; a request has an
\* outcome exactly when it has ended, the outcome is the success payload or
\* one HTTP error, and once delivered it is never replaced by another.
C16_ExactlyOneOutcome ==
    /\ \A r \in Requests : (pc[r] = "reading") ~> (pc[r] = "done")
    /\ [](\A r \in Requests : pc[r] = "done" <=> Answered(r))
    /\ [][\A r \in Requests : Answered(r) => response'[r] = response[r]]_vars

\* Every request has been answered, one after a model call and one after a
\* failed read of its upload.
C16_Witness ==
    /\ \A r \in Requests : pc[r] = "done" /\ Answered(r)
    /\ \E r \in Requests : Called(r)
    /\ \E r \in Requests : raised[r] = ReadError

====
